---- MODULE Spec2Model ----
(***************************************************************************)
(* Model of 05-plotting/aia_all.py: a linear script that queries the VSO,  *)
(* downloads AIA and HMI files, builds SunPy maps, crops them and draws    *)
(* them in a nine-region matplotlib figure.                                *)
(*                                                                         *)
(* Each statement of the script is one action; pc names the statement that *)
(* runs next.  An uncaught exception moves pc to "error" and nothing runs  *)
(* afterwards.  The script is Python 2 (SunPy 0.5: map.wavelength is a     *)
(* plain number used as a dictionary key and multiplied by u.AA), so the   *)
(* builtin map() on line 95 is eager and calls mapwplot once per key, in   *)
(* dictionary order.                                                       *)
(*                                                                         *)
(* Lengths on the figure are in hundredths of the figure size; solar       *)
(* coordinates are in arcseconds; wavelengths are in Angstrom.             *)
(***************************************************************************)
EXTENDS Integers, Sequences, FiniteSets, TLC

\* ---------------------------------------------------------------- bounds
\* At most this many of the expected files are absent from the archive's
\* answer.
MaxMissing == 2

\* ------------------------------------------------------- script parameters
bx == -300
by == -150
w == 600
h == 300
label_padx == 50
label_pady == 20

height == 25
edge_width == 25
FigUnit == 100

HMIWavelength == 6173
MainWavelength == 1700
MainBox == 1000
MainLabelX == -950
MainLabelY == -990

\* A wavelength AIA also observes, but that the figure has no region for.
ExtraWavelength == 4500

sorted_wavelengths_swapped == <<335, 211, 171, 304, 1700, 193, 131, 94, 6173>>

sorted_wavelengths == <<335, 211, 171, 304, 6173, 193, 131, 94, 1700>>

\* The files the two searches of line 35-36 are expected to return.
AIAFiles == {[inst |-> "AIA", wavelnth |-> x] : x \in {94, 131, 171, 193, 211, 304, 335, 1700}}

HMIFiles == {[inst |-> "HMI", wavelnth |-> HMIWavelength]}

ExpectedFiles == AIAFiles \cup HMIFiles

ExtraFiles == {[inst |-> "AIA", wavelnth |-> ExtraWavelength]}

\* ------------------------------------------------------------ Python helpers
\* An empty dict.
EmptyDict == [k \in {} |-> 0]

\* d.update({k: v})
Update(d, k, v) == [x \in (DOMAIN d) \cup {k} |-> IF x = k THEN v ELSE d[x]]

\* The elements of list s.
Elems(s) == {s[i] : i \in 1..Len(s)}

\* s[:-1]
ButLast(s) == SubSeq(s, 1, Len(s) - 1)

\* s[-1]
Last(s) == s[Len(s)]

Min(a, b) == IF a < b THEN a ELSE b

\* {k: v for k, v in zip(ks, vs)}: zip stops at the shorter list, and a key
\* that occurs twice keeps its last value.
ZipDict(ks, vs) ==
    LET n == Min(Len(ks), Len(vs))
        lastIdx(k) == CHOOSE i \in 1..n : ks[i] = k /\ \A j \in 1..n : ks[j] = k => j <= i
    IN [k \in {ks[i] : i \in 1..n} |-> vs[lastIdx(k)]]

\* The keys of list ks that dict d lacks, and the first of them: the key a
\* left-to-right run of d[key] raises KeyError for.
MissingKeys(d, ks) == {i \in 1..Len(ks) : ks[i] \notin DOMAIN d}

FirstMissing(d, ks) == ks[CHOOSE i \in MissingKeys(d, ks) : \A j \in MissingKeys(d, ks) : i <= j]

\* ------------------------------------------------------------- SunPy helpers
\* sunpy.map.Map(file): the map of one file, full disk, not yet rotated.
LoadMap(f) == [wavelength |-> f.wavelnth, data |-> f, rotated |-> FALSE]

\* map.rotate(order=3)
Rotate(m) == [m EXCEPT !.rotated = TRUE]

Submap_noY(m, xr, yr) ==
    [wavelength |-> m.wavelength, data |-> m.data, rotated |-> m.rotated,
     xrange |-> xr, yrange |-> xr]

\* map.submap(xr, yr): the same image cut to the coordinate ranges.
Submap(m, xr, yr) ==
    [wavelength |-> m.wavelength, data |-> m.data, rotated |-> m.rotated,
     xrange |-> xr, yrange |-> yr]

\* (key*u.AA).to(u.nm)._repr_latex_(): the wavelength written in nanometres.
LatexNm(key) == [kind |-> "latex", whole |-> key \div 10, tenth |-> key % 10, unit |-> "nm"]

RawText(s) == [kind |-> "raw", str |-> s]

\* -------------------------------------------------------- matplotlib helpers
\* fig.add_axes(rect): a new, empty region with default ticks.
NewAxes(rect) ==
    [rect |-> rect, images |-> <<>>, texts |-> <<>>, patches |-> <<>>,
     xticks |-> TRUE, yticks |-> TRUE]

LeftRect_topdown(i) == <<0, (3 - i) * height, edge_width, height>>

\* The rectangles of lines 76-78, i in range(4).
LeftRect(i) == <<0, i * height, edge_width, height>>

RightRect(i) == <<FigUnit - edge_width, i * height, edge_width, height>>

CentreRect == <<edge_width, 0, FigUnit - 2 * edge_width, FigUnit>>

\* ax.imshow(m.data, ..., extent=m.xrange + m.yrange)
Imshow(ax, m) == [ax EXCEPT !.images = Append(@, [data |-> m.data, extent |-> m.xrange \o m.yrange])]

\* ax.text(x, y, s, ...)
Text(ax, x, y, s) == [ax EXCEPT !.texts = Append(@, [x |-> x, y |-> y, s |-> s])]

Rectangle_swapped(xy, width, hgt) == [xy |-> xy, width |-> hgt, height |-> width]

\* plt.Rectangle(xy, width, height, fc='none')
Rectangle(xy, width, hgt) == [xy |-> xy, width |-> width, height |-> hgt]

AddPatch(ax, p) == [ax EXCEPT !.patches = Append(@, p)]

HasGenericLabel_hmiOnly(key, ord) == key # HMIWavelength

\* Line 90: key not in (6173.0, sorted_wavelengths[-1])
HasGenericLabel(key, ord) == key \notin {HMIWavelength, Last(ord)}

TicksOff_leftOnly(figure, ids, axis) ==
    [i \in DOMAIN figure |->
        IF i \in ids /\ i <= 4
        THEN (IF axis = "x" THEN [figure[i] EXCEPT !.xticks = FALSE]
                            ELSE [figure[i] EXCEPT !.yticks = FALSE])
        ELSE figure[i]]

\* [ax.axes.get_?axis().set_ticks([]) for ax in axes.values()]
TicksOff(figure, ids, axis) ==
    [i \in DOMAIN figure |->
        IF i \in ids
        THEN (IF axis = "x" THEN [figure[i] EXCEPT !.xticks = FALSE]
                            ELSE [figure[i] EXCEPT !.yticks = FALSE])
        ELSE figure[i]]

\* ---------------------------------------------------------------- state
VARIABLES
    pc,           \* the statement that runs next
    err,          \* the uncaught exception, if any
    order,        \* sorted_wavelengths
    remote,       \* the files the archive holds for the two searches
    results,      \* results of vsoClient.query
    files,        \* the download handle of vsoClient.get
    disk,         \* the files in data_dir
    aiamaps,      \* maps, as bound on line 51 (the list of AIA maps)
    hmimap,       \* hmimap
    mapw,         \* mapw
    maps,         \* maps, as bound on line 65 (the dict of cropped maps)
    fig,          \* the axes of fig, in creation order
    left_axes, right_axes, centre_axes,   \* lists of indices into fig
    axes,         \* axes: wavelength -> index into fig
    todo,         \* the keys map() has not yet passed to mapwplot
    shown         \* plt.show() has displayed the figure

vars == <<pc, err, order, remote, results, files, disk, aiamaps, hmimap, mapw,
          maps, fig, left_axes, right_axes, centre_axes, axes, todo, shown>>

NoErr == [line |-> 0, kind |-> "none", key |-> 0]

NoMap == [wavelength |-> 0]

Raise(line, kind, key) ==
    /\ pc' = "error"
    /\ err' = [line |-> line, kind |-> kind, key |-> key]

\* The archive's possible answers: the expected files, some of them absent.
RemoteSets == {ExpectedFiles \ miss : miss \in {m \in SUBSET ExpectedFiles : Cardinality(m) <= MaxMissing}}

InitRest ==
    /\ pc = "query"
    /\ err = NoErr
    /\ results = {}
    /\ files = "none"
    /\ disk = {}
    /\ aiamaps = {}
    /\ hmimap = NoMap
    /\ mapw = EmptyDict
    /\ maps = EmptyDict
    /\ fig = <<>>
    /\ left_axes = <<>>
    /\ right_axes = <<>>
    /\ centre_axes = <<>>
    /\ axes = EmptyDict
    /\ todo = {}
    /\ shown = FALSE

Init ==
    /\ order = sorted_wavelengths
    /\ remote \in RemoteSets
    /\ InitRest

\* ------------------------------------------------------------ query & fetch
netVars == <<order, remote, aiamaps, hmimap, mapw, maps, fig, left_axes,
             right_axes, centre_axes, axes, todo, shown>>

Query_swallow ==
    /\ pc = "query"
    /\ \/ /\ results' = remote
          /\ pc' = "get"
          /\ err' = err
       \/ /\ results' = {}
          /\ pc' = "get"
          /\ err' = [line |-> 42, kind |-> "network", key |-> 0]
    /\ UNCHANGED <<files, disk>>
    /\ UNCHANGED netVars

\* Line 42: results = vsoClient.query(search_aia | search_hmi)
Query ==
    /\ pc = "query"
    /\ \/ /\ results' = remote
          /\ pc' = "get"
          /\ err' = err
       \/ /\ Raise(42, "network", 0)
          /\ results' = results
    /\ UNCHANGED <<files, disk>>
    /\ UNCHANGED netVars

Get_nowait ==
    /\ pc = "get"
    /\ \/ /\ files' = "pending"
          /\ pc' = "load_aia"
          /\ err' = err
       \/ /\ Raise(44, "network", 0)
          /\ files' = files
    /\ UNCHANGED <<results, disk>>
    /\ UNCHANGED netVars

\* Line 44: files = vsoClient.get(results, path=...)
Get ==
    /\ pc = "get"
    /\ \/ /\ files' = "pending"
          /\ pc' = "wait"
          /\ err' = err
       \/ /\ Raise(44, "network", 0)
          /\ files' = files
    /\ UNCHANGED <<results, disk>>
    /\ UNCHANGED netVars

\* Line 46: files.wait(progress=True) returns when every file is in data_dir.
Wait ==
    /\ pc = "wait"
    /\ \/ /\ files' = "complete"
          /\ disk' = disk \cup results
          /\ pc' = "load_aia"
          /\ err' = err
       \/ /\ Raise(46, "network", 0)
          /\ UNCHANGED <<files, disk>>
    /\ UNCHANGED results
    /\ UNCHANGED netVars

\* --------------------------------------------------------- map construction
ioVars == <<order, remote, results, files, disk>>

figVars == <<fig, left_axes, right_axes, centre_axes, axes, todo, shown>>

\* Line 51: maps = sunpy.map.Map(os.path.join(data_dir, 'aia_lev1_*'))
LoadAIA ==
    /\ pc = "load_aia"
    /\ aiamaps' = {LoadMap(f) : f \in {g \in disk : g.inst = "AIA"}}
    /\ pc' = "load_hmi"
    /\ UNCHANGED <<err, hmimap, mapw, maps>>
    /\ UNCHANGED ioVars
    /\ UNCHANGED figVars

LoadHMI_blank ==
    /\ pc = "load_hmi"
    /\ hmimap' = IF \E f \in disk : f.inst = "HMI"
                 THEN Rotate(LoadMap(CHOOSE f \in disk : f.inst = "HMI"))
                 ELSE [wavelength |-> HMIWavelength, data |-> [inst |-> "none", wavelnth |-> 0], rotated |-> TRUE]
    /\ pc' = "mapw"
    /\ UNCHANGED <<err, aiamaps, mapw, maps>>
    /\ UNCHANGED ioVars
    /\ UNCHANGED figVars

\* Line 52: hmimap = sunpy.map.Map(os.path.join(data_dir, 'hmi_*')).rotate(order=3)
\* With no hmi_ file the factory has no map to return and the call of
\* .rotate fails (AttributeError on the empty list).
LoadHMI ==
    /\ pc = "load_hmi"
    /\ IF \E f \in disk : f.inst = "HMI"
       THEN /\ hmimap' = Rotate(LoadMap(CHOOSE f \in disk : f.inst = "HMI"))
            /\ pc' = "mapw"
            /\ err' = err
       ELSE /\ Raise(52, "AttributeError", 0)
            /\ hmimap' = hmimap
    /\ UNCHANGED <<aiamaps, mapw, maps>>
    /\ UNCHANGED ioVars
    /\ UNCHANGED figVars

\* Line 55: mapw = {map.wavelength: map.rotate(order=3) for map in maps}
BuildMapw ==
    /\ pc = "mapw"
    /\ mapw' = [x \in {m.wavelength : m \in aiamaps} |->
                   Rotate(CHOOSE m \in aiamaps : m.wavelength = x)]
    /\ pc' = "mapw_update"
    /\ UNCHANGED <<err, aiamaps, hmimap, maps>>
    /\ UNCHANGED ioVars
    /\ UNCHANGED figVars

\* Line 56: mapw.update({6173.0: hmimap})
UpdateMapw ==
    /\ pc = "mapw_update"
    /\ mapw' = Update(mapw, HMIWavelength, hmimap)
    /\ pc' = "crop"
    /\ UNCHANGED <<err, aiamaps, hmimap, maps>>
    /\ UNCHANGED ioVars
    /\ UNCHANGED figVars

\* ------------------------------------------------------------------ cropping
\* Line 65: maps = {map.wavelength: map.submap((bx, bx+w), (by, by+h))
\*                  for map in [mapw[key] for key in sorted_wavelengths[:-1]]}
Crop ==
    /\ pc = "crop"
    /\ LET keys == ButLast(order)
       IN IF MissingKeys(mapw, keys) # {}
          THEN /\ Raise(65, "KeyError", FirstMissing(mapw, keys))
               /\ maps' = maps
          ELSE /\ LET lastIdx(x) == CHOOSE i \in 1..Len(keys) :
                                      /\ mapw[keys[i]].wavelength = x
                                      /\ \A j \in 1..Len(keys) :
                                            mapw[keys[j]].wavelength = x => j <= i
                  IN maps' = [x \in {mapw[keys[i]].wavelength : i \in 1..Len(keys)} |->
                                 Submap(mapw[keys[lastIdx(x)]], <<bx, bx + w>>, <<by, by + h>>)]
               /\ pc' = "crop_main"
               /\ err' = err
    /\ UNCHANGED <<aiamaps, hmimap, mapw>>
    /\ UNCHANGED ioVars
    /\ UNCHANGED figVars

\* Line 66: maps.update({1700: mapw[1700].submap((-1000,1000), (-1000,1000))})
CropMain ==
    /\ pc = "crop_main"
    /\ IF MainWavelength \notin DOMAIN mapw
       THEN /\ Raise(66, "KeyError", MainWavelength)
            /\ maps' = maps
       ELSE /\ maps' = Update(maps, MainWavelength,
                          Submap(mapw[MainWavelength], <<-MainBox, MainBox>>, <<-MainBox, MainBox>>))
            /\ pc' = "left_axes"
            /\ err' = err
    /\ UNCHANGED <<aiamaps, hmimap, mapw>>
    /\ UNCHANGED ioVars
    /\ UNCHANGED figVars

\* ------------------------------------------------------------------- layout
dataVars == <<aiamaps, hmimap, mapw, maps>>

\* Lines 71 and 76: fig = plt.figure(...);
\* left_axes = [fig.add_axes([0, i*height, edge_width, height]) for i in range(4)]
LeftAxes ==
    /\ pc = "left_axes"
    /\ fig' = fig \o [i \in 1..4 |-> NewAxes(LeftRect(i - 1))]
    /\ left_axes' = [i \in 1..4 |-> Len(fig) + i]
    /\ pc' = "right_axes"
    /\ UNCHANGED <<err, right_axes, centre_axes, axes, todo, shown>>
    /\ UNCHANGED ioVars
    /\ UNCHANGED dataVars

\* Line 77: right_axes = [fig.add_axes([1.-edge_width, i*height, edge_width, height]) for i in range(4)]
RightAxes ==
    /\ pc = "right_axes"
    /\ fig' = fig \o [i \in 1..4 |-> NewAxes(RightRect(i - 1))]
    /\ right_axes' = [i \in 1..4 |-> Len(fig) + i]
    /\ pc' = "centre_axes"
    /\ UNCHANGED <<err, left_axes, centre_axes, axes, todo, shown>>
    /\ UNCHANGED ioVars
    /\ UNCHANGED dataVars

\* Line 78: centre_axes = [fig.add_axes([edge_width, 0, 1.0-2*edge_width, 1])]
CentreAxes ==
    /\ pc = "centre_axes"
    /\ fig' = Append(fig, NewAxes(CentreRect))
    /\ centre_axes' = <<Len(fig) + 1>>
    /\ pc' = "axes"
    /\ UNCHANGED <<err, left_axes, right_axes, axes, todo, shown>>
    /\ UNCHANGED ioVars
    /\ UNCHANGED dataVars

\* Line 82: axes = {wave: ax for wave, ax in
\*                  zip(sorted_wavelengths, left_axes+right_axes+centre_axes)}
BuildAxes ==
    /\ pc = "axes"
    /\ axes' = ZipDict(order, left_axes \o right_axes \o centre_axes)
    /\ pc' = "map"
    /\ UNCHANGED <<err, fig, left_axes, right_axes, centre_axes, todo, shown>>
    /\ UNCHANGED ioVars
    /\ UNCHANGED dataVars

\* ---------------------------------------------------------------- rendering
layoutVars == <<left_axes, right_axes, centre_axes, axes>>

\* Line 95: map(mapwplot, maps.keys()) starts on the keys of maps.
MapKeys ==
    /\ pc = "map"
    /\ todo' = DOMAIN maps
    /\ pc' = "mapwplot"
    /\ UNCHANGED <<err, fig, shown>>
    /\ UNCHANGED layoutVars
    /\ UNCHANGED ioVars
    /\ UNCHANGED dataVars

\* Lines 84-92: one call mapwplot(key), for whichever key the dict yields next.
Mapwplot(key) ==
    /\ pc = "mapwplot"
    /\ key \in todo
    /\ IF key \notin DOMAIN axes
       THEN /\ Raise(89, "KeyError", key)
            /\ UNCHANGED <<fig, todo>>
       ELSE /\ LET drawn == Imshow(fig[axes[key]], maps[key])
                   labelled == IF HasGenericLabel(key, order)
                               THEN Text(drawn, bx + label_padx, by + label_pady, LatexNm(key))
                               ELSE drawn
               IN fig' = [fig EXCEPT ![axes[key]] = labelled]
            /\ todo' = todo \ {key}
            /\ pc' = IF todo' = {} THEN "xticks" ELSE "mapwplot"
            /\ err' = err
    /\ UNCHANGED shown
    /\ UNCHANGED layoutVars
    /\ UNCHANGED ioVars
    /\ UNCHANGED dataVars

AxesValues == {axes[k] : k \in DOMAIN axes}

\* Line 98: [ax.axes.get_xaxis().set_ticks([]) for ax in axes.values()]
XTicks ==
    /\ pc = "xticks"
    /\ fig' = TicksOff(fig, AxesValues, "x")
    /\ pc' = "yticks"
    /\ UNCHANGED <<err, todo, shown>>
    /\ UNCHANGED layoutVars
    /\ UNCHANGED ioVars
    /\ UNCHANGED dataVars

\* Line 99: [ax.axes.get_yaxis().set_ticks([]) for ax in axes.values()]
YTicks ==
    /\ pc = "yticks"
    /\ fig' = TicksOff(fig, AxesValues, "y")
    /\ pc' = "label_hmi"
    /\ UNCHANGED <<err, todo, shown>>
    /\ UNCHANGED layoutVars
    /\ UNCHANGED ioVars
    /\ UNCHANGED dataVars

\* Line 102: axes[6173.].text(bx+label_padx, by+label_padx, r"LOS Magnetic Field", ...)
LabelHMI ==
    /\ pc = "label_hmi"
    /\ IF HMIWavelength \notin DOMAIN axes
       THEN /\ Raise(102, "KeyError", HMIWavelength)
            /\ fig' = fig
       ELSE /\ fig' = [fig EXCEPT ![axes[HMIWavelength]] =
                          Text(@, bx + label_padx, by + label_padx, RawText("LOS Magnetic Field"))]
            /\ pc' = "label_main"
            /\ err' = err
    /\ UNCHANGED <<todo, shown>>
    /\ UNCHANGED layoutVars
    /\ UNCHANGED ioVars
    /\ UNCHANGED dataVars

\* Line 104: axes[sorted_wavelengths[-1]].text(-950, -990, (1700*u.AA).to(u.nm)._repr_latex_(), ...)
LabelMain ==
    /\ pc = "label_main"
    /\ IF Last(order) \notin DOMAIN axes
       THEN /\ Raise(104, "KeyError", Last(order))
            /\ fig' = fig
       ELSE /\ fig' = [fig EXCEPT ![axes[Last(order)]] =
                          Text(@, MainLabelX, MainLabelY, LatexNm(MainWavelength))]
            /\ pc' = "rectangle"
            /\ err' = err
    /\ UNCHANGED <<todo, shown>>
    /\ UNCHANGED layoutVars
    /\ UNCHANGED ioVars
    /\ UNCHANGED dataVars

\* Lines 108-109: re = plt.Rectangle((bx,by), w, h, fc='none');
\* axes[sorted_wavelengths[-1]].add_patch(re)
AddRectangle ==
    /\ pc = "rectangle"
    /\ fig' = [fig EXCEPT ![axes[Last(order)]] = AddPatch(@, Rectangle(<<bx, by>>, w, h))]
    /\ pc' = "show"
    /\ UNCHANGED <<err, todo, shown>>
    /\ UNCHANGED layoutVars
    /\ UNCHANGED ioVars
    /\ UNCHANGED dataVars

\* Line 112: plt.show()
Show ==
    /\ pc = "show"
    /\ shown' = TRUE
    /\ pc' = "done"
    /\ UNCHANGED <<err, fig, todo>>
    /\ UNCHANGED layoutVars
    /\ UNCHANGED ioVars
    /\ UNCHANGED dataVars

Next ==
    \/ Query
    \/ Get
    \/ Wait
    \/ LoadAIA
    \/ LoadHMI
    \/ BuildMapw
    \/ UpdateMapw
    \/ Crop
    \/ CropMain
    \/ LeftAxes
    \/ RightAxes
    \/ CentreAxes
    \/ BuildAxes
    \/ MapKeys
    \/ \E key \in todo : Mapwplot(key)
    \/ XTicks
    \/ YTicks
    \/ LabelHMI
    \/ LabelMain
    \/ AddRectangle
    \/ Show

Spec == Init /\ [][Next]_vars

\* The same script run with other ordering lists: the script's list, the list
\* with a tenth wavelength appended or inserted before the main one, and the
\* list with its first entry removed.
OrderInputs ==
    { sorted_wavelengths,
      Append(sorted_wavelengths, ExtraWavelength),
      Append(ButLast(sorted_wavelengths), ExtraWavelength) \o <<Last(sorted_wavelengths)>>,
      Tail(sorted_wavelengths) }

InitOrder ==
    /\ order \in OrderInputs
    /\ remote \in {r \cup x : r \in RemoteSets, x \in {{}, ExtraFiles}}
    /\ InitRest

SpecOrder == InitOrder /\ [][Next]_vars

\* ================================================================== claims
AllPresent == remote = ExpectedFiles

OneMissing == remote \subseteq ExpectedFiles /\ Cardinality(ExpectedFiles \ remote) = 1

Displayed == pc \in {"show", "done"}

EdgeWavelengths == {94, 131, 171, 193, 211, 304, 335}

\* The regions of the figure whose rectangle is r.
RegionsAt(r) == {i \in DOMAIN fig : fig[i].rect = r}

\* C1 (as stated): with all nine wavelengths present, the displayed figure's
\* centre region (the large one between the edge columns) holds the HMI
\* (6173) image.
C1_CentreHoldsHMI ==
    (Displayed /\ AllPresent) =>
        \A i \in RegionsAt(<<25, 0, 50, 100>>) :
            \E j \in DOMAIN fig[i].images : fig[i].images[j].data.inst = "HMI"

\* C1 (amended): with all nine wavelengths present, the displayed figure's
\* centre region holds the 1700 image and nothing else, and the HMI (6173)
\* image is in the bottom region of the right column.
C1_CentreHoldsMain ==
    (Displayed /\ AllPresent) =>
        /\ Cardinality(RegionsAt(<<25, 0, 50, 100>>)) = 1
        /\ \A i \in RegionsAt(<<25, 0, 50, 100>>) :
              /\ Len(fig[i].images) = 1
              /\ fig[i].images[1].data = [inst |-> "AIA", wavelnth |-> 1700]
        /\ Cardinality(RegionsAt(<<75, 0, 25, 25>>)) = 1
        /\ \A i \in RegionsAt(<<75, 0, 25, 25>>) :
              /\ Len(fig[i].images) = 1
              /\ fig[i].images[1].data = [inst |-> "HMI", wavelnth |-> 6173]

C1_Witness ==
    /\ pc = "done"
    /\ AllPresent
    /\ \E i \in DOMAIN fig : fig[i].rect = <<25, 0, 50, 100>> /\ Len(fig[i].images) = 1

\* C2: when the ordering list has one more entry than there are regions
\* (10 against 9), the wavelength-to-region assignment is never built: the
\* script stops with an error at that statement.
C2_TenthRejected ==
    (Len(order) = 10 /\ Len(fig) = 9) =>
        /\ axes = EmptyDict
        /\ pc \in {"axes", "error"}

\* C3: with all nine wavelengths present, the displayed figure has on the
\* 6173 region only the label "LOS Magnetic Field", on the 1700 region only
\* its custom label, on neither the generic label of mapwplot, and on each of
\* the other seven regions exactly one generic label showing its wavelength.
C3_Labels ==
    (Displayed /\ AllPresent) =>
        /\ LET t == fig[axes[6173]].texts
           IN /\ Len(t) = 1
              /\ t[1].s.kind = "raw"
              /\ t[1].s.str = "LOS Magnetic Field"
              /\ <<t[1].x, t[1].y>> # <<-250, -130>>
        /\ LET t == fig[axes[1700]].texts
           IN /\ Len(t) = 1
              /\ <<t[1].x, t[1].y>> = <<-950, -990>>
              /\ t[1].s.kind = "latex"
              /\ <<t[1].s.whole, t[1].s.tenth, t[1].s.unit>> = <<170, 0, "nm">>
        /\ \A x \in EdgeWavelengths :
              LET t == fig[axes[x]].texts
              IN /\ Len(t) = 1
                 /\ <<t[1].x, t[1].y>> = <<-250, -130>>
                 /\ t[1].s.kind = "latex"
                 /\ t[1].s.unit = "nm"
                 /\ 10 * t[1].s.whole + t[1].s.tenth = x
                 /\ t[1].s.tenth \in 0..9

C3_Witness ==
    /\ Displayed
    /\ AllPresent
    /\ Len(fig[axes[6173]].texts) = 1
    /\ Len(fig[axes[335]].texts) = 1

\* C4 (as stated): if exactly one of the nine wavelengths is absent, the
\* figure is never displayed, and once the download is complete the script
\* stops with a lookup error, whichever wavelength is missing.
C4_LookupErrorAlways ==
    OneMissing =>
        /\ ~shown
        /\ pc # "show"
        /\ (pc = "error" /\ files = "complete") => err.kind = "KeyError"

\* C4 (amended): if exactly one of the nine wavelengths is absent, the figure
\* is never displayed and no region is ever created; once the download is
\* complete the script stops with a lookup error for the missing wavelength
\* at the cropping stage when an AIA wavelength is missing, and with an
\* error that is not a lookup error at the loading of the HMI map when the
\* HMI wavelength is missing.
C4_StopsBeforeDisplay ==
    OneMissing =>
        /\ ~shown
        /\ fig = <<>>
        /\ pc \in {"query", "get", "wait", "load_aia", "load_hmi", "mapw",
                   "mapw_update", "crop", "crop_main", "error"}
        /\ (pc = "error" /\ files = "complete") =>
              \A f \in ExpectedFiles \ remote :
                 IF f.inst = "HMI"
                 THEN err.line = 52 /\ err.kind # "KeyError"
                 ELSE /\ err.kind = "KeyError"
                      /\ err.key = f.wavelnth
                      /\ err.line = IF f.wavelnth = 1700 THEN 66 ELSE 65

C4_Witness ==
    /\ OneMissing
    /\ [inst |-> "HMI", wavelnth |-> 6173] \notin remote
    /\ files = "complete"
    /\ pc = "error"

\* C5: the ordering list has nine distinct wavelengths, as many as there are
\* regions, and the assignment gives position i of the list region i, in the
\* order left column bottom to top, right column bottom to top, centre last;
\* no two wavelengths share a region.
C5_Assignment ==
    /\ \A i, j \in 1..Len(order) : order[i] = order[j] => i = j
    /\ axes # EmptyDict =>
          /\ Len(order) = 9
          /\ Len(fig) = 9
          /\ DOMAIN axes = {order[i] : i \in 1..9}
          /\ \A x, y \in DOMAIN axes : axes[x] = axes[y] => x = y
          /\ \A i \in 1..4 : fig[axes[order[i]]].rect = <<0, 25 * (i - 1), 25, 25>>
          /\ \A i \in 5..8 : fig[axes[order[i]]].rect = <<75, 25 * (i - 5), 25, 25>>
          /\ fig[axes[order[9]]].rect = <<25, 0, 50, 100>>
          /\ \A i, j \in 1..9 : fig[i].rect = fig[j].rect => i = j

C5_Witness ==
    /\ pc = "map"
    /\ Cardinality(DOMAIN axes) = 9

\* C6: the stages run in the order query, download, wait, map construction,
\* cropping, rendering, display: a stage has effects only when the stage
\* before it is complete, map construction does not start before the wait
\* has completed, and the figure is displayed only after all of them.
C6_StageOrder ==
    /\ files # "none" => results = remote
    /\ disk # {} => files = "complete"
    /\ pc \in {"load_hmi", "mapw", "mapw_update", "crop", "crop_main", "left_axes",
               "right_axes", "centre_axes", "axes", "map", "mapwplot", "xticks",
               "yticks", "label_hmi", "label_main", "rectangle", "show", "done"}
          => files = "complete" /\ disk = results
    /\ (aiamaps # {} \/ hmimap # NoMap \/ mapw # EmptyDict) => files = "complete"
    /\ maps # EmptyDict => HMIWavelength \in DOMAIN mapw
    /\ fig # <<>> => MainWavelength \in DOMAIN maps
    /\ shown =>
          /\ files = "complete"
          /\ DOMAIN mapw = DOMAIN maps
          /\ todo = {}
          /\ \A x \in DOMAIN maps :
                /\ Len(fig[axes[x]].images) = 1
                /\ ~fig[axes[x]].xticks
                /\ ~fig[axes[x]].yticks
                /\ Len(fig[axes[x]].texts) = 1
          /\ Len(fig[axes[1700]].patches) = 1

C6_Witness ==
    /\ shown
    /\ files = "complete"
    /\ Len(fig) = 9

\* C7: an error in the query or download stage ends the script there: the
\* stage is not run again, no map is built, nothing is cropped or drawn and
\* no figure is displayed.
C7_FetchErrorIsFatal ==
    err.line \in {42, 44, 46} =>
        /\ pc = "error"
        /\ err.line = 42 => results = {} /\ files = "none"
        /\ err.line = 44 => files = "none"
        /\ files # "complete"
        /\ disk = {}
        /\ aiamaps = {}
        /\ hmimap = NoMap
        /\ mapw = EmptyDict
        /\ maps = EmptyDict
        /\ fig = <<>>
        /\ axes = EmptyDict
        /\ ~shown

C7_Witness ==
    /\ pc = "error"
    /\ err.kind = "network"
    /\ err.line = 46
    /\ files = "pending"

\* C8: after the cropping stage the cropped-map mapping has exactly one entry
\* per wavelength of the ordering list, keyed by that wavelength; the eight
\* other than 1700 are cropped to [-300, 300] x [-150, 150] and 1700 to
\* [-1000, 1000] x [-1000, 1000].
C8_CroppedMaps ==
    MainWavelength \in DOMAIN maps =>
        /\ DOMAIN maps = {335, 211, 171, 304, 6173, 193, 131, 94, 1700}
        /\ DOMAIN maps = {order[i] : i \in 1..Len(order)}
        /\ \A x \in DOMAIN maps :
              /\ maps[x].wavelength = x
              /\ maps[x].data.wavelnth = x
              /\ maps[x].data \in disk
        /\ \A x \in DOMAIN maps \ {1700} :
              /\ maps[x].xrange = <<-300, 300>>
              /\ maps[x].yrange = <<-150, 150>>
        /\ maps[1700].xrange = <<-1000, 1000>>
        /\ maps[1700].yrange = <<-1000, 1000>>

C8_Witness ==
    /\ pc = "left_axes"
    /\ Cardinality(DOMAIN maps) = 9

\* C9: with all nine wavelengths present, when the figure is displayed each
\* of the nine regions has exactly one image, the cropped map of the
\* wavelength assigned to the region, and no ticks on either axis.
C9_EveryRegionDrawn ==
    (Displayed /\ AllPresent) =>
        /\ Len(fig) = 9
        /\ \A i \in 1..9 :
              /\ Len(fig[i].images) = 1
              /\ fig[i].images[1].data.wavelnth = order[i]
              /\ \E x \in DOMAIN axes :
                    /\ axes[x] = i
                    /\ fig[i].images[1].data = maps[x].data
                    /\ fig[i].images[1].extent = maps[x].xrange \o maps[x].yrange
              /\ ~fig[i].xticks
              /\ ~fig[i].yticks

C9_Witness ==
    /\ pc = "show"
    /\ AllPresent
    /\ \A i \in 1..9 : Len(fig[i].images) = 1 /\ ~fig[i].xticks

\* C10: the rectangle on the main (1700) image has the bounds of the crop box
\* of the eight edge images, x in [bx, bx+w] and y in [by, by+h], is drawn on
\* the main region only, and lies inside the main image's crop extent.
C10_CropRectangle ==
    Displayed =>
        /\ \A x \in DOMAIN axes \ {1700} : fig[axes[x]].patches = <<>>
        /\ Len(fig[axes[1700]].patches) = 1
        /\ LET re == fig[axes[1700]].patches[1]
               main == maps[1700]
           IN /\ re.xy = <<-300, -150>>
              /\ \A x \in DOMAIN maps \ {1700} :
                    /\ maps[x].xrange = <<re.xy[1], re.xy[1] + re.width>>
                    /\ maps[x].yrange = <<re.xy[2], re.xy[2] + re.height>>
              /\ main.xrange[1] <= re.xy[1]
              /\ re.xy[1] + re.width <= main.xrange[2]
              /\ main.yrange[1] <= re.xy[2]
              /\ re.xy[2] + re.height <= main.yrange[2]
              /\ fig[axes[1700]].images[1].extent = <<-1000, 1000, -1000, 1000>>

C10_Witness ==
    /\ pc = "done"
    /\ \E i \in DOMAIN fig : Len(fig[i].patches) = 1

====
